---- MODULE Spec2Model ----
(***************************************************************************)
(* prometheus-ecoflow-exporter: the scrape-time collection cycle of        *)
(* src/main.go.  One EcoflowExporter per device holds five gauges and a    *)
(* mutex; every scrape runs Collect() of a device in its own goroutine,    *)
(* and the registry that called Collect() consumes the emitted metrics     *)
(* from the channel, taking each gauge's value when it consumes it.        *)
(***************************************************************************)
EXTENDS Integers, Sequences, FiniteSets, TLC

\* ---------------------------------------------------------------- bounds
NumTasks == 2       \* goroutines that run Collect() concurrently
NumDevices == 2     \* configured devices (one EcoflowExporter each)
MaxVal == 1         \* telemetry numbers range over 0..MaxVal
MaxTimeout == 1     \* check timeouts range over -1..MaxTimeout
MaxRecords == 2     \* a configuration file lists at most MaxRecords devices

Tasks == 1..NumTasks
Devices == 1..NumDevices
Values == 0..MaxVal
Timeouts == -1..MaxTimeout
NoTask == 0
NoDevice == 0
NoStatus == 0

\* ------------------------------------------------------------ data types
\* The five gauges of an exporter, in the order Collect() emits them.
EmitOrder == <<"soc", "remaintime", "wattsinsum", "wattsoutsum", "checkError">>
GaugeNames == {EmitOrder[i] : i \in 1..Len(EmitOrder)}
TelemetryGauges == GaugeNames \ {"checkError"}

\* EcoflowApiData and EcoflowApi (Message is never read).
EcoflowApiData == [Soc : Values, RemainTime : Values,
                   WattsOutSum : Values, WattsInSum : Values]
ZeroData == [Soc |-> 0, RemainTime |-> 0, WattsOutSum |-> 0, WattsInSum |-> 0]
ZeroApi == [Code |-> "", Data |-> ZeroData]

\* A response body as the upstream wrote it: not JSON at all, or a JSON
\* object {"code": .., "data": {..}} in which every field is present or
\* absent (code: a sequence of at most one string; data: a function on the
\* fields that are present).
Codes == {"0", "1"}
JsonDataFields == {"soc", "remainTime", "wattsOutSum", "wattsInSum"}
JsonBodies == [code : {<<>>} \cup {<<c>> : c \in Codes},
               data : UNION {[S -> Values] : S \in SUBSET JsonDataFields}]
Garbage == [malformed |-> TRUE]
Bodies == JsonBodies \cup {Garbage}
\* The bodies in which all four numbers are present and equal.
UniformBodies == {b \in JsonBodies :
                    /\ DOMAIN b.data = JsonDataFields
                    /\ \A j, k \in JsonDataFields : b.data[j] = b.data[k]}
                 \cup {Garbage}
HttpStatuses == {200, 500}

\* json.Unmarshal into a zero EcoflowApi: an absent field keeps its zero value.
NumOrZero(data, k) == IF k \in DOMAIN data THEN data[k] ELSE 0
StrOrEmpty(code) == IF code = <<>> THEN "" ELSE code[1]
Unmarshal(body) ==
    IF "malformed" \in DOMAIN body
    THEN [err |-> TRUE, api |-> ZeroApi]
    ELSE [err |-> FALSE,
          api |-> [Code |-> StrOrEmpty(body.code),
                   Data |-> [Soc |-> NumOrZero(body.data, "soc"),
                             RemainTime |-> NumOrZero(body.data, "remainTime"),
                             WattsOutSum |-> NumOrZero(body.data, "wattsOutSum"),
                             WattsInSum |-> NumOrZero(body.data, "wattsInSum")]]]

\* A prometheus.NewGauge starts at 0.
NewGauges == [g \in GaugeNames |-> 0]

\* The metric identifiers Describe() sends, in its order.
DescOrder == <<"soc", "remain_time", "watts_in_sum", "watts_out_sum", "check_error">>
Desc(d, name) == [fqName |-> name, sn |-> d]
DescIds(d) == [i \in 1..Len(DescOrder) |-> Desc(d, DescOrder[i])]

\* Strings, as far as main() compares them: the empty string and one
\* string per device (serial numbers and labels), a key absent or present.
Strings == {<<>>} \cup {<<d>> : d \in Devices}
Keys == {"", "k"}

\* type Ecoflow, and its zero value.
Ecoflow == [Description : Strings, SerialNumber : Strings,
            AppKey : Keys, SecretKey : Keys]
ZeroEcoflow == [Description |-> <<>>, SerialNumber |-> <<>>,
                AppKey |-> "", SecretKey |-> ""]

\* make([]Ecoflow, 256).
ecoflowListCap == 256
ZeroList == [i \in 1..ecoflowListCap |-> ZeroEcoflow]

\* The records a configuration file lists (a key left out decodes to its
\* zero value; both keys given or both left out).
ConfigRecords == {r \in Ecoflow : r.AppKey = r.SecretKey}
RECURSIVE ListsUpTo(_)
ListsUpTo(n) == IF n = 0 THEN {<<>>}
                ELSE ListsUpTo(n - 1) \cup [1..n -> ConfigRecords]

\* What the configuration file holds: no YAML document at all (an empty
\* file, or comments only), text that is no YAML list of records, or a
\* list of records.
NoDocument == [empty |-> TRUE]
BadDocument == [malformed |-> TRUE]
Documents == {NoDocument, BadDocument}
             \cup {[records |-> l] : l \in ListsUpTo(MaxRecords)}

\* yaml.Unmarshal(config, &out): without a document out is left as it is; a
\* list replaces out by a slice of the list's length.
YamlUnmarshal(doc, out) ==
    IF "malformed" \in DOMAIN doc THEN [err |-> TRUE, out |-> out]
    ELSE IF "empty" \in DOMAIN doc THEN [err |-> FALSE, out |-> out]
    ELSE [err |-> FALSE, out |-> doc.records]

\* A defaults() that overwrites the description it is given.
defaultsAlways(params) == [params EXCEPT !.Description = params.SerialNumber]

\* Lines 53-57.
defaults(params) ==
    IF params.Description = <<>>
    THEN [params EXCEPT !.Description = params.SerialNumber]
    ELSE params

\* A loop body in which the last record of a serial number wins.
InsertLast(list, t) == (t.SerialNumber :> defaults(t)) @@ list

\* Lines 230-234: the body of the loop, on the map list and the record t.
Insert(list, t) ==
    IF t.SerialNumber \in DOMAIN list THEN list
    ELSE (t.SerialNumber :> defaults(t)) @@ list

\* Lines 59-99: the exporter of a record (a copy of it, and the constant
\* labels of its five gauges).
CreateExporters(e) ==
    [ecoflow |-> e,
     labels |-> [description |-> e.Description, sn |-> e.SerialNumber]]

\* The configuration of the devices the scrapes run on.
DeviceRecord(d) == [Description |-> <<>>, SerialNumber |-> <<d>>,
                    AppKey |-> "k", SecretKey |-> "k"]
DeviceList == [d \in Devices |-> DeviceRecord(d)]
NoRecords == [sn \in {} |-> ZeroEcoflow]

\* ----------------------------------------------------------------- state
VARIABLES
    checkTimeout,   \* the --check_timeout / CHECK_TIMEOUT duration
    serialOk,       \* per device: the URL built from its serial number parses
    exited,         \* the process has ended (log.Fatal)
    gauges,         \* per device: the five gauge values
    mutex,          \* per device: the task holding ecoflow.mutex, or NoTask
    pc,             \* per task: its position in Collect()
    dev,            \* per task: the exporter whose Collect() it runs
    res,            \* per task: res of line 120
    err,            \* per task: err of line 120
    status,         \* per task: the HTTP status of the response its fetch got
    requests,       \* per task: upstream requests issued for its scrape so far
    pre,            \* per device: the gauge values when the holder locked
    ch,             \* per task: metrics emitted and not yet consumed
    observed,       \* per task: the values its scrape has read so far
    candidates,     \* per task: complete cycles that agree with observed
    described,      \* what the last Describe() sent
    mainpc,         \* the position of main()
    config,         \* the YAML document in the configuration file
    ecoflowListConfig,  \* main's list the file is decoded into
    ecoflowList,    \* main's working set: serial number -> record
    ecoflow,        \* the index of the loop of line 229 (from 1)
    registered      \* the exporters handed to prometheus.MustRegister

\* The variables of main() before it serves, and those of the scrapes.
mainVars == <<mainpc, config, ecoflowListConfig, ecoflowList, ecoflow,
              registered>>
collectVars == <<checkTimeout, serialOk, gauges, mutex, pc, dev, res, err,
                 status, requests, pre, ch, observed, candidates, described>>
vars == <<mainVars, exited, collectVars>>

Pcs == {"idle", "lock", "newrequest", "do", "decide", "set_remaintime",
        "set_wattsinsum", "set_wattsoutsum", "emit", "unlock", "returned"}

NoneRead == [g \in {} |-> 0]

TypeOK ==
    /\ checkTimeout \in Timeouts
    /\ serialOk \in [Devices -> BOOLEAN]
    /\ exited \in BOOLEAN
    /\ gauges \in [Devices -> [GaugeNames -> Values \cup {0, 1}]]
    /\ mutex \in [Devices -> Tasks \cup {NoTask}]
    /\ pc \in [Tasks -> Pcs]
    /\ dev \in [Tasks -> Devices \cup {NoDevice}]
    /\ err \in [Tasks -> BOOLEAN]
    /\ status \in [Tasks -> HttpStatuses \cup {NoStatus}]
    /\ requests \in [Tasks -> Nat]

\* No scrape has come in yet.
NoScrape(timeouts, serials) ==
    /\ checkTimeout \in timeouts
    /\ serialOk \in serials
    /\ exited = FALSE
    /\ gauges = [d \in Devices |-> NewGauges]
    /\ mutex = [d \in Devices |-> NoTask]
    /\ pc = [t \in Tasks |-> "idle"]
    /\ dev = [t \in Tasks |-> NoDevice]
    /\ res = [t \in Tasks |-> ZeroApi]
    /\ err = [t \in Tasks |-> FALSE]
    /\ status = [t \in Tasks |-> NoStatus]
    /\ requests = [t \in Tasks |-> 0]
    /\ pre = [d \in Devices |-> NewGauges]
    /\ ch = [t \in Tasks |-> <<>>]
    /\ observed = [t \in Tasks |-> NoneRead]
    /\ candidates = [t \in Tasks |-> {}]
    /\ described = <<>>

\* The state after main() has registered the exporters of DeviceList.
InitWith(timeouts, serials) ==
    /\ NoScrape(timeouts, serials)
    /\ mainpc = "serve"
    /\ config = [records |-> DeviceList]
    /\ ecoflowListConfig = DeviceList
    /\ ecoflowList = [sn \in {<<d>> : d \in Devices} |-> defaults(DeviceRecord(sn[1]))]
    /\ ecoflow = NumDevices + 1
    /\ registered = {CreateExporters(defaults(DeviceRecord(d))) : d \in Devices}

FirstTask == CHOOSE t \in Tasks : \A u \in Tasks : t <= u
FirstDevice == CHOOSE d \in Devices : \A e \in Devices : d <= e

\* Serial numbers: any for the first device, well-formed for the others.
FirstSerials == {s \in [Devices -> BOOLEAN] :
                   \A d \in Devices \ {FirstDevice} : s[d]}

\* A positive check timeout, any serial numbers.
Init == InitWith({MaxTimeout}, [Devices -> BOOLEAN])

\* ------------------------------------------------------------- Describe
\* A Describe() that takes the exporter's mutex for its sends.
DescribeLocked(d) ==
    /\ ~exited
    /\ mutex[d] = NoTask
    /\ described' = DescIds(d)
    /\ UNCHANGED <<checkTimeout, serialOk, exited, gauges, mutex, pc, dev,
                   res, err, status, requests, pre, ch, observed, candidates,
                   mainVars>>

\* Describe(): five sends of static descriptors; no lock, no gauge value.
Describe(d) ==
    /\ ~exited
    /\ described' = DescIds(d)
    /\ UNCHANGED <<checkTimeout, serialOk, exited, gauges, mutex, pc, dev,
                   res, err, status, requests, pre, ch, observed, candidates,
                   mainVars>>

\* -------------------------------------------------------------- Collect
\* A Lock() that never waits.
CanLockAlways(d) == TRUE

\* One mutex shared by all exporters.
CanLockGlobal(d) == \A e \in Devices : mutex[e] = NoTask

\* ecoflow.mutex.Lock() succeeds when nobody holds this exporter's mutex.
CanLock(d) == mutex[d] = NoTask

\* Line 109: a scrape's goroutine calls Collect() of exporter d.
Collect(t, d) ==
    /\ ~exited
    /\ pc[t] = "idle"
    /\ dev' = [dev EXCEPT ![t] = d]
    /\ pc' = [pc EXCEPT ![t] = "lock"]
    /\ UNCHANGED <<checkTimeout, serialOk, exited, gauges, mutex, res, err,
                   status, requests, pre, ch, observed, candidates, described,
                   mainVars>>

\* Line 110: ecoflow.mutex.Lock() returns.
Lock(t) ==
    /\ ~exited
    /\ pc[t] = "lock"
    /\ CanLock(dev[t])
    /\ mutex' = [mutex EXCEPT ![dev[t]] = t]
    /\ pre' = [pre EXCEPT ![dev[t]] = gauges[dev[t]]]
    /\ pc' = [pc EXCEPT ![t] = "newrequest"]
    /\ UNCHANGED <<checkTimeout, serialOk, exited, gauges, dev, res, err,
                   status, requests, ch, observed, candidates, described,
                   mainVars>>

\* Lines 135-150: http.NewRequest; its error ends the process (log.Fatal),
\* otherwise httpClient.Do sends the request.
NewRequest(t) ==
    /\ ~exited
    /\ pc[t] = "newrequest"
    /\ IF serialOk[dev[t]]
       THEN /\ pc' = [pc EXCEPT ![t] = "do"]
            /\ requests' = [requests EXCEPT ![t] = @ + 1]
            /\ UNCHANGED exited
       ELSE /\ exited' = TRUE
            /\ UNCHANGED <<pc, requests>>
    /\ UNCHANGED <<checkTimeout, serialOk, gauges, mutex, dev, res, err,
                   status, pre, ch, observed, candidates, described,
                   mainVars>>

\* getEcoflowApiData returns (api, e) to line 120.
FetchReturns(t, api, e) ==
    /\ res' = [res EXCEPT ![t] = api]
    /\ err' = [err EXCEPT ![t] = e]
    /\ pc' = [pc EXCEPT ![t] = "decide"]
    /\ UNCHANGED <<checkTimeout, serialOk, exited, gauges, mutex, dev,
                   requests, pre, ch, observed, candidates, described,
                   mainVars>>

\* http.Client: a Timeout of zero or less sets no deadline.
HasDeadline(timeout) == timeout > 0

\* Lines 150-153: httpClient.Do fails (connection refused, reset, ...).
DoError(t) ==
    /\ ~exited
    /\ pc[t] = "do"
    /\ UNCHANGED status
    /\ FetchReturns(t, ZeroApi, TRUE)

\* Lines 136-138, 150-165: the client's deadline passes before the body is read.
Timeout(t) ==
    /\ ~exited
    /\ pc[t] = "do"
    /\ HasDeadline(checkTimeout)
    /\ UNCHANGED status
    /\ FetchReturns(t, ZeroApi, TRUE)

\* Lines 162-165: the response arrived and reading its body failed.
ReadError(t) ==
    /\ ~exited
    /\ pc[t] = "do"
    /\ UNCHANGED status
    /\ FetchReturns(t, ZeroApi, TRUE)

\* Lines 150-173: the upstream answers with status s and a body; Do returns
\* no error for any status, res.StatusCode is never read, the body is
\* decoded.  The status stays on record until line 122 has decided.
Respond(t, s, body) ==
    /\ ~exited
    /\ pc[t] = "do"
    /\ status' = [status EXCEPT ![t] = s]
    /\ LET r == Unmarshal(body)
       IN FetchReturns(t, r.api, r.err)

\* A decision that looks at the error alone.
FailedErrOnly(e, api) == e

\* Line 122.
Failed(e, api) == e \/ "0" # api.Code

SetGauge(d, g, v) == gauges' = [gauges EXCEPT ![d][g] = v]

\* A reader's values so far are all values of the gauge set `left`.
Agrees(left, obs) == \A g \in DOMAIN obs : obs[g] = left[g]

\* The last gauge write of task t's cycle on exporter d: the gauge values now
\* are what this cycle leaves.  It is the first cycle whose values task t's
\* own scrape can read, and one more cycle that a scrape still reading d's
\* gauges may be reading.
CycleLeaves(t, d) ==
    candidates' = [u \in Tasks |->
        IF u = t THEN {gauges'[d]}
        ELSE IF dev[u] = d /\ pc[u] = "returned" /\ Agrees(gauges'[d], observed[u])
             THEN candidates[u] \cup {gauges'[d]}
             ELSE candidates[u]]

\* A failure branch that also zeroes the telemetry gauges.
SetCheckErrorResets(t) ==
    /\ ~exited
    /\ pc[t] = "decide"
    /\ Failed(err[t], res[t])
    /\ gauges' = [gauges EXCEPT ![dev[t]] =
                     [g \in GaugeNames |-> IF g = "checkError" THEN 1 ELSE 0]]
    /\ CycleLeaves(t, dev[t])
    /\ status' = [status EXCEPT ![t] = NoStatus]
    /\ pc' = [pc EXCEPT ![t] = "emit"]
    /\ UNCHANGED <<checkTimeout, serialOk, exited, mutex, dev, res, err,
                   requests, pre, ch, observed, described, mainVars>>

\* Lines 122-125: the failure branch.
SetCheckError(t) ==
    /\ ~exited
    /\ pc[t] = "decide"
    /\ Failed(err[t], res[t])
    /\ SetGauge(dev[t], "checkError", 1)
    /\ CycleLeaves(t, dev[t])
    /\ status' = [status EXCEPT ![t] = NoStatus]
    /\ pc' = [pc EXCEPT ![t] = "emit"]
    /\ UNCHANGED <<checkTimeout, serialOk, exited, mutex, dev, res, err,
                   requests, pre, ch, observed, described, mainVars>>

\* Line 127.
SetSoc(t) ==
    /\ ~exited
    /\ pc[t] = "decide"
    /\ ~Failed(err[t], res[t])
    /\ SetGauge(dev[t], "soc", res[t].Data.Soc)
    /\ status' = [status EXCEPT ![t] = NoStatus]
    /\ pc' = [pc EXCEPT ![t] = "set_remaintime"]
    /\ UNCHANGED <<checkTimeout, serialOk, exited, mutex, dev, res, err,
                   requests, pre, ch, observed, candidates, described,
                   mainVars>>

\* Line 128.
SetRemainTime(t) ==
    /\ ~exited
    /\ pc[t] = "set_remaintime"
    /\ SetGauge(dev[t], "remaintime", res[t].Data.RemainTime)
    /\ pc' = [pc EXCEPT ![t] = "set_wattsinsum"]
    /\ UNCHANGED <<checkTimeout, serialOk, exited, mutex, dev, res, err,
                   status, requests, pre, ch, observed, candidates, described,
                   mainVars>>

\* A line 129 that writes the other watts field.
SetWattsInSumSwapped(t) ==
    /\ ~exited
    /\ pc[t] = "set_wattsinsum"
    /\ SetGauge(dev[t], "wattsinsum", res[t].Data.WattsOutSum)
    /\ pc' = [pc EXCEPT ![t] = "set_wattsoutsum"]
    /\ UNCHANGED <<checkTimeout, serialOk, exited, mutex, dev, res, err,
                   status, requests, pre, ch, observed, candidates, described,
                   mainVars>>

\* Line 129.
SetWattsInSum(t) ==
    /\ ~exited
    /\ pc[t] = "set_wattsinsum"
    /\ SetGauge(dev[t], "wattsinsum", res[t].Data.WattsInSum)
    /\ pc' = [pc EXCEPT ![t] = "set_wattsoutsum"]
    /\ UNCHANGED <<checkTimeout, serialOk, exited, mutex, dev, res, err,
                   status, requests, pre, ch, observed, candidates, described,
                   mainVars>>

\* Line 130.
SetWattsOutSum(t) ==
    /\ ~exited
    /\ pc[t] = "set_wattsoutsum"
    /\ SetGauge(dev[t], "wattsoutsum", res[t].Data.WattsOutSum)
    /\ CycleLeaves(t, dev[t])
    /\ pc' = [pc EXCEPT ![t] = "emit"]
    /\ UNCHANGED <<checkTimeout, serialOk, exited, mutex, dev, res, err,
                   status, requests, pre, ch, observed, described, mainVars>>

\* How many of its five metrics task t's Collect() has sent.
Sent(t) == Len(ch[t]) + Cardinality(DOMAIN observed[t])

\* Lines 111-116: the deferred function sends the gauges themselves, one
\* send per step; the registry's channel is buffered, a send does not wait
\* for the reader.
Send(t) ==
    /\ ~exited
    /\ pc[t] = "emit"
    /\ ch' = [ch EXCEPT ![t] = Append(ch[t], EmitOrder[Sent(t) + 1])]
    /\ pc' = [pc EXCEPT ![t] = IF Sent(t) + 1 = Len(EmitOrder)
                                THEN "unlock" ELSE "emit"]
    /\ UNCHANGED <<checkTimeout, serialOk, exited, gauges, mutex, dev, res,
                   err, status, requests, pre, observed, candidates,
                   described, mainVars>>

\* Line 117: ecoflow.mutex.Unlock(), and Collect() returns.
Unlock(t) ==
    /\ ~exited
    /\ pc[t] = "unlock"
    /\ mutex' = [mutex EXCEPT ![dev[t]] = NoTask]
    /\ pre' = [pre EXCEPT ![dev[t]] = NewGauges]
    /\ res' = [res EXCEPT ![t] = ZeroApi]
    /\ err' = [err EXCEPT ![t] = FALSE]
    /\ pc' = [pc EXCEPT ![t] = "returned"]
    /\ UNCHANGED <<checkTimeout, serialOk, exited, gauges, dev, status,
                   requests, ch, observed, candidates, described, mainVars>>

\* The scrape that called Collect() takes the next metric off the channel
\* and reads the value of the gauge it was sent (lines 112-116 send the
\* gauge objects, not copies of their values).
Read(t) ==
    /\ ~exited
    /\ ch[t] # <<>>
    /\ LET g == Head(ch[t])
           v == gauges[dev[t]][g]
       IN /\ observed' = [observed EXCEPT ![t] = (g :> v) @@ observed[t]]
          /\ candidates' = [candidates EXCEPT
                              ![t] = {c \in candidates[t] : c[g] = v}]
    /\ ch' = [ch EXCEPT ![t] = Tail(ch[t])]
    /\ UNCHANGED <<checkTimeout, serialOk, exited, gauges, mutex, pc, dev,
                   res, err, status, requests, pre, described, mainVars>>

\* The scrape has read all five metrics of the exporter and is served.
ScrapeDone(t) ==
    /\ ~exited
    /\ pc[t] = "returned"
    /\ DOMAIN observed[t] = GaugeNames
    /\ pc' = [pc EXCEPT ![t] = "idle"]
    /\ dev' = [dev EXCEPT ![t] = NoDevice]
    /\ requests' = [requests EXCEPT ![t] = 0]
    /\ observed' = [observed EXCEPT ![t] = NoneRead]
    /\ candidates' = [candidates EXCEPT ![t] = {}]
    /\ UNCHANGED <<checkTimeout, serialOk, exited, gauges, mutex, res, err,
                   status, pre, ch, described, mainVars>>

\* The scrape drains the rest of the channel in one go and is served.
Serve(t) ==
    /\ ~exited
    /\ pc[t] = "returned"
    /\ pc' = [pc EXCEPT ![t] = "idle"]
    /\ dev' = [dev EXCEPT ![t] = NoDevice]
    /\ requests' = [requests EXCEPT ![t] = 0]
    /\ ch' = [ch EXCEPT ![t] = <<>>]
    /\ observed' = [observed EXCEPT ![t] = NoneRead]
    /\ candidates' = [candidates EXCEPT ![t] = {}]
    /\ UNCHANGED <<checkTimeout, serialOk, exited, gauges, mutex, res, err,
                   status, pre, described, mainVars>>

\* The steps of a Collect() that task t has entered, the upstream drawing
\* its answer from bodies.
CollectStep(t, bodies) ==
    \/ Lock(t)
    \/ NewRequest(t)
    \/ DoError(t)
    \/ Timeout(t)
    \/ ReadError(t)
    \/ \E s \in HttpStatuses, b \in bodies : Respond(t, s, b)
    \/ SetCheckError(t)
    \/ SetSoc(t)
    \/ SetRemainTime(t)
    \/ SetWattsInSum(t)
    \/ SetWattsOutSum(t)
    \/ Send(t)
    \/ Unlock(t)

\* Concurrent scrapes of all exporters.
Next ==
    \/ \E t \in Tasks, d \in Devices : Collect(t, d)
    \/ \E t \in Tasks : CollectStep(t, UniformBodies)
    \/ \E t \in Tasks : Serve(t)

Spec == Init /\ [][Next]_vars

\* One scrape of all exporters: the registry runs the Collect() of every
\* exporter at once, each in its own goroutine (task d runs exporter d), and
\* scrapes follow one another.  The upstream answers garbage or one reading.
FleetBodies == {b \in UniformBodies :
                  b # Garbage => b.code = <<"0">> /\ b.data["soc"] = MaxVal}
FleetNext ==
    \/ \E t \in Tasks \cap Devices : Collect(t, t)
    \/ \E t \in Tasks : CollectStep(t, FleetBodies)
    \/ \E t \in Tasks : Serve(t)

FleetSpec == Init /\ [][FleetNext]_vars

\* Concurrent scrapes of one exporter.
DeviceInit == InitWith({MaxTimeout}, FirstSerials)
DeviceNext ==
    \/ \E t \in Tasks : Collect(t, FirstDevice)
    \/ \E t \in Tasks : CollectStep(t, UniformBodies)
    \/ \E t \in Tasks : Serve(t)

DeviceSpec == DeviceInit /\ [][DeviceNext]_vars

\* Describe() calls during the scrapes of one exporter, one scrape at a time.
DescribeNext ==
    \/ Describe(FirstDevice)
    \/ Collect(FirstTask, FirstDevice)
    \/ CollectStep(FirstTask, UniformBodies)
    \/ Serve(FirstTask)

DescribeSpec == DeviceInit /\ [][DescribeNext]_vars

\* Concurrent scrapes of one exporter, each reading the metrics it is sent
\* one by one.
ScrapeInit == InitWith({MaxTimeout}, {[d \in Devices |-> TRUE]})
ScrapeNext ==
    \/ \E t \in Tasks : Collect(t, FirstDevice)
    \/ \E t \in Tasks : CollectStep(t, UniformBodies)
    \/ \E t \in Tasks : Read(t)
    \/ \E t \in Tasks : ScrapeDone(t)

ScrapeSpec == ScrapeInit /\ [][ScrapeNext]_vars

\* One scrape at a time, the upstream answering anything.
CycleInit == InitWith({MaxTimeout}, FirstSerials)
CycleNext ==
    \/ Collect(FirstTask, FirstDevice)
    \/ CollectStep(FirstTask, Bodies)
    \/ Serve(FirstTask)

CycleSpec == CycleInit /\ [][CycleNext]_vars

\* One scrape at a time under any check timeout.
TimeoutInit == InitWith(Timeouts, FirstSerials)
TimeoutNext ==
    \/ Collect(FirstTask, FirstDevice)
    \/ CollectStep(FirstTask, UniformBodies)
    \/ Serve(FirstTask)

TimeoutSpec == TimeoutInit /\ [][TimeoutNext]_vars

\* ----------------------------------------------------------------- main
\* Lines 216-227: main() makes its list and its map, reads the file and
\* decodes it into the list; an error ends the process (log.Fatal).
ParseConfig ==
    /\ ~exited
    /\ mainpc = "unmarshal"
    /\ LET r == YamlUnmarshal(config, ecoflowListConfig)
       IN IF r.err
          THEN /\ exited' = TRUE
               /\ UNCHANGED <<mainpc, ecoflowListConfig, ecoflow>>
          ELSE /\ ecoflowListConfig' = r.out
               /\ ecoflow' = 1
               /\ mainpc' = "dedup"
               /\ UNCHANGED exited
    /\ UNCHANGED <<config, ecoflowList, registered, collectVars>>

\* Lines 229-235: one turn of the loop over the list.
Dedup ==
    /\ ~exited
    /\ mainpc = "dedup"
    /\ ecoflow <= Len(ecoflowListConfig)
    /\ ecoflowList' = Insert(ecoflowList, ecoflowListConfig[ecoflow])
    /\ ecoflow' = ecoflow + 1
    /\ UNCHANGED <<mainpc, config, ecoflowListConfig, registered, exited,
                   collectVars>>

\* Line 235: the loop has gone through the list.
DedupDone ==
    /\ ~exited
    /\ mainpc = "dedup"
    /\ ecoflow > Len(ecoflowListConfig)
    /\ mainpc' = "register"
    /\ UNCHANGED <<config, ecoflowListConfig, ecoflowList, ecoflow,
                   registered, exited, collectVars>>

\* Lines 237-243: one turn of the loop over the map, in any order of its
\* keys: an exporter is created for the record and registered.
Register(sn) ==
    /\ ~exited
    /\ mainpc = "register"
    /\ sn \in DOMAIN ecoflowList
    /\ CreateExporters(ecoflowList[sn]) \notin registered
    /\ registered' = registered \cup {CreateExporters(ecoflowList[sn])}
    /\ UNCHANGED <<mainpc, config, ecoflowListConfig, ecoflowList, ecoflow,
                   exited, collectVars>>

\* Lines 245-248: every record of the map is registered; main() serves.
ListenAndServe ==
    /\ ~exited
    /\ mainpc = "register"
    /\ \A sn \in DOMAIN ecoflowList :
          CreateExporters(ecoflowList[sn]) \in registered
    /\ mainpc' = "serve"
    /\ UNCHANGED <<config, ecoflowListConfig, ecoflowList, ecoflow,
                   registered, exited, collectVars>>

\* main() from its first line, on any configuration file.
MainInit ==
    /\ NoScrape({MaxTimeout}, {[d \in Devices |-> TRUE]})
    /\ mainpc = "unmarshal"
    /\ config \in Documents
    /\ ecoflowListConfig = ZeroList
    /\ ecoflowList = NoRecords
    /\ ecoflow = 1
    /\ registered = {}
MainNext ==
    \/ ParseConfig
    \/ Dedup
    \/ DedupDone
    \/ \E sn \in Strings : Register(sn)
    \/ ListenAndServe

MainSpec == MainInit /\ [][MainNext]_vars

\* ---------------------------------------------------------------- claims
\* Collect() has made all its gauge writes and still holds the mutex.
Updated(t) == pc[t] \in {"emit", "unlock"}

\* The telemetry gauges of exporter d are what they were when its holder locked.
TelemetryKept(d) == \A g \in TelemetryGauges : gauges[d][g] = pre[d][g]

\* C1: the five values one scrape has read off the gauges it was sent are,
\* once no cycle of that device is running any more, the values left by one
\* complete cycle (its own or a later one).
C1_ScrapeReadsOneCycle ==
    \A t \in Tasks :
        (/\ pc[t] = "returned"
         /\ DOMAIN observed[t] = GaugeNames
         /\ mutex[dev[t]] = NoTask)
        => \E c \in candidates[t] : \A g \in GaugeNames : c[g] = observed[t][g]

\* C2: after the gauge writes of a cycle whose fetch succeeded with code
\* "0", the check-error gauge is 0.
C2_SuccessClearsCheckError ==
    \A t \in Tasks :
        (Updated(t) /\ ~err[t] /\ res[t].Code = "0")
        => gauges[dev[t]]["checkError"] = 0

\* C3: after the gauge writes of a cycle whose fetch succeeded with code
\* "0", each telemetry gauge holds the value of its own field of the
\* decoded response.
C3_SuccessWritesTelemetry ==
    \A t \in Tasks :
        (Updated(t) /\ ~err[t] /\ res[t].Code = "0")
        => /\ gauges[dev[t]]["soc"] = res[t].Data.Soc
           /\ gauges[dev[t]]["remaintime"] = res[t].Data.RemainTime
           /\ gauges[dev[t]]["wattsoutsum"] = res[t].Data.WattsOutSum
           /\ gauges[dev[t]]["wattsinsum"] = res[t].Data.WattsInSum

\* C3 witness: a successful cycle has overwritten other values with a
\* response whose four numbers are not all equal.
C3_Witness ==
    \E t \in Tasks :
        /\ pc[t] = "unlock" /\ ~err[t] /\ res[t].Code = "0"
        /\ res[t].Data.WattsInSum # res[t].Data.WattsOutSum
        /\ res[t].Data.Soc # res[t].Data.RemainTime
        /\ \A g \in TelemetryGauges : pre[dev[t]][g] # gauges[dev[t]][g]

\* C4: after the gauge writes of a cycle whose fetch returned an error,
\* check-error is 1 and every telemetry gauge holds the value it held when
\* the cycle began.
C4_TransportErrorKeepsTelemetry ==
    \A t \in Tasks :
        (Updated(t) /\ err[t])
        => /\ gauges[dev[t]]["checkError"] = 1
           /\ TelemetryKept(dev[t])

\* C4 witness: a second failed cycle in a row ends with the telemetry of an
\* earlier successful cycle still in the gauges.
C4_Witness ==
    \E t \in Tasks :
        /\ pc[t] = "unlock" /\ err[t]
        /\ pre[dev[t]]["checkError"] = 1
        /\ \A g \in TelemetryGauges : gauges[dev[t]][g] # 0

\* C5: after the gauge writes of a cycle whose fetch returned a decoded
\* response with a code other than "0", check-error is 1 and every telemetry
\* gauge holds the value it held when the cycle began, whatever the data of
\* the response.
C5_NonZeroCodeIsFailure ==
    \A t \in Tasks :
        (Updated(t) /\ ~err[t] /\ res[t].Code # "0")
        => /\ gauges[dev[t]]["checkError"] = 1
           /\ TelemetryKept(dev[t])

\* C5 witness: a response with code "1" whose four numbers all differ from
\* the gauges has been handled, starting from check-error 0.
C5_Witness ==
    \E t \in Tasks :
        /\ pc[t] = "unlock" /\ ~err[t] /\ res[t].Code = "1"
        /\ pre[dev[t]]["checkError"] = 0
        /\ res[t].Data.Soc # gauges[dev[t]]["soc"]
        /\ res[t].Data.RemainTime # gauges[dev[t]]["remaintime"]
        /\ res[t].Data.WattsOutSum # gauges[dev[t]]["wattsoutsum"]
        /\ res[t].Data.WattsInSum # gauges[dev[t]]["wattsinsum"]
\* Task t is between Lock() and Unlock() of Collect().
Holding(t) == pc[t] \in {"newrequest", "do", "decide", "set_remaintime",
                         "set_wattsinsum", "set_wattsoutsum", "emit", "unlock"}

\* The gauges the Collect() of task t has written so far.
Written(t) ==
    IF pc[t] \in {"newrequest", "do", "decide"} THEN {}
    ELSE IF pc[t] = "set_remaintime" THEN {"soc"}
    ELSE IF pc[t] = "set_wattsinsum" THEN {"soc", "remaintime"}
    ELSE IF pc[t] = "set_wattsoutsum" THEN {"soc", "remaintime", "wattsinsum"}
    ELSE IF Failed(err[t], res[t]) THEN {"checkError"}
    ELSE TelemetryGauges

\* C6: at most one Collect() per exporter is between Lock() and Unlock(),
\* and it is the one the mutex names; as long as it holds the mutex, the
\* gauges it has not written itself are as they were when it locked, so no
\* other cycle's write falls between its own.
C6_OneCollectPerDevice ==
    /\ \A t, u \in Tasks :
          (t # u /\ Holding(t) /\ Holding(u)) => dev[t] # dev[u]
    /\ \A t \in Tasks : Holding(t) => mutex[dev[t]] = t
    /\ \A d \in Devices : mutex[d] # NoTask => Holding(mutex[d])
    /\ \A t \in Tasks :
          Holding(t) => \A g \in GaugeNames \ Written(t) :
                           gauges[dev[t]][g] = pre[dev[t]][g]

\* C6 witness: one Collect() is in the middle of its gauge writes while a
\* second Collect() of the same exporter waits in Lock().
C6_Witness ==
    \E t, u \in Tasks :
        /\ pc[t] = "set_wattsinsum"
        /\ pc[u] = "lock" /\ dev[u] = dev[t]
        /\ ~ENABLED Lock(u)

\* Any step task t itself takes in Collect(), and any end of its fetch.
TaskStep(t) ==
    \/ Lock(t) \/ NewRequest(t)
    \/ DoError(t) \/ Timeout(t) \/ ReadError(t)
    \/ SetCheckError(t) \/ SetSoc(t) \/ SetRemainTime(t)
    \/ SetWattsInSum(t) \/ SetWattsOutSum(t)
    \/ Send(t) \/ Unlock(t)
    \/ \E s \in HttpStatuses, b \in Bodies : Respond(t, s, b)

\* C7: a Collect() is held up by nothing but a holder of its own exporter's
\* mutex: whatever the Collect() calls of the other exporters are doing, it
\* can take its next step.
C7_WaitsOnOwnDeviceOnly ==
    \A t \in Tasks :
        (/\ ~exited
         /\ pc[t] = "lock" \/ Holding(t)
         /\ pc[t] = "lock" => \A u \in Tasks : ~(Holding(u) /\ dev[u] = dev[t]))
        => ENABLED TaskStep(t)

\* C7 witness: while one exporter's Collect() holds its mutex with the fetch
\* unanswered, a Collect() of another exporter has locked, fetched and
\* updated, and is about to unlock.
C7_Witness ==
    \E t, u \in Tasks :
        /\ pc[t] = "do" /\ pc[u] = "unlock" /\ dev[t] # dev[u]
        /\ ~err[u] /\ res[u].Code = "0"
        /\ gauges[dev[u]] # pre[dev[u]]
        /\ gauges[dev[t]] = NewGauges

\* C8: Describe() can run whenever the process runs, whoever holds the
\* mutex, and what it sends is the exporter's five identifiers.
C8_DescribeNeverBlocks ==
    /\ ~exited => \A d \in Devices : ENABLED Describe(d)
    /\ described # <<>> => \E d \in Devices : described = DescIds(d)

\* C8 witness: Describe() has sent the five identifiers and can run again
\* while a Collect() of the same exporter is fetching, the gauges no longer
\* at their first values.
C8_Witness ==
    \E t \in Tasks :
        /\ pc[t] = "do" /\ mutex[dev[t]] = t
        /\ described = DescIds(dev[t])
        /\ Len(described) = 5
        /\ gauges[dev[t]] # NewGauges
        /\ ENABLED Describe(dev[t])
\* The steps by which a Collect() that holds the mutex goes on without any
\* answer from the upstream: its own steps and the client's deadline.
OwnStep(t) ==
    \/ NewRequest(t) \/ Timeout(t)
    \/ SetCheckError(t) \/ SetSoc(t) \/ SetRemainTime(t)
    \/ SetWattsInSum(t) \/ SetWattsOutSum(t)
    \/ Send(t) \/ Unlock(t)

\* C9: with a check timeout above zero, a Collect() that holds the mutex is
\* never stuck: whatever the upstream does, it has a step of its own or a
\* deadline that brings it nearer to its Unlock().
C9_CollectNeverStuck ==
    checkTimeout > 0 =>
        \A t \in Tasks : Holding(t) => ENABLED OwnStep(t)

\* C9 for the exporters whose request can be built: under fair scheduling
\* of the goroutine and of the client's timer, and no fairness at all of
\* the upstream, a Collect() that holds the mutex leaves the failure or
\* the success branch behind and returns.
FairTimeoutSpec ==
    /\ TimeoutSpec
    /\ \A t \in Tasks : WF_vars(OwnStep(t))

C9_BuiltRequestReturns ==
    \A t \in Tasks :
        (checkTimeout > 0 /\ pc[t] = "do") ~> (pc[t] = "returned")

\* C10: with a check timeout of zero or less, no fetch is ever waiting for
\* the upstream without a deadline: either the fetch is not issued at all,
\* or the client's deadline can end it.
C10_NonPositiveTimeoutHasDeadline ==
    checkTimeout <= 0 =>
        \A t \in Tasks : pc[t] = "do" => ENABLED Timeout(t)

\* The statuses net/http counts as success.
Is2xx(s) == s \in 200..299

\* C11: a fetch that got a response with a status outside 2xx has returned
\* an error to line 120, so line 122 takes the failure branch and not the
\* branch that writes the telemetry gauges, whatever the body said.
C11_Non2xxIsTransportError ==
    \A t \in Tasks :
        (pc[t] = "decide" /\ status[t] # NoStatus /\ ~Is2xx(status[t]))
        => /\ err[t]
           /\ ENABLED SetCheckError(t)
           /\ ~ENABLED SetSoc(t)

\* C12: no Collect() cycle ends the process, whatever the serial number of
\* its device and whatever the upstream does: no reachable state of a cycle
\* is a process exit.
C12_NoProcessExit ==
    /\ ~exited
    /\ \A t \in Tasks : Holding(t) => ENABLED TaskStep(t)

\* C13: the Collect() of a device whose own request can be built goes on to
\* its emit and Unlock() whatever the cycles of the other devices do, a
\* failing one included: the scrape gets that device's metrics.
C13_OtherDevicesUnaffected ==
    \A t \in Tasks :
        (Holding(t) /\ serialOk[dev[t]]) => ENABLED TaskStep(t)

\* C13, the part about gauges and locks: no step of a Collect() changes a
\* gauge or the mutex of another exporter.
C13_FrameOfOtherDevices ==
    [][\A t \in Tasks : TaskStep(t) =>
          \A d \in Devices \ {dev[t]} :
              gauges'[d] = gauges[d] /\ mutex'[d] = mutex[d]]_vars

\* The records of the list the loop of line 229 has gone through, and the
\* first of them with serial number sn.
Looped == IF mainpc = "unmarshal" THEN {} ELSE 1..(ecoflow - 1)
FirstWith(sn) ==
    CHOOSE i \in Looped :
        /\ ecoflowListConfig[i].SerialNumber = sn
        /\ \A j \in Looped : ecoflowListConfig[j].SerialNumber = sn => i <= j

\* C14: the working set has one entry per distinct serial number of the
\* records the loop has gone through (all of the list, once the loop has
\* ended), and the entry of a serial number is the first record of the list
\* with it, its description replaced by the serial number if it was empty;
\* later records with the same serial number have changed nothing.
C14_FirstOccurrenceWins ==
    /\ mainpc \in {"register", "serve"} => ecoflow = Len(ecoflowListConfig) + 1
    /\ DOMAIN ecoflowList = {ecoflowListConfig[i].SerialNumber : i \in Looped}
    /\ \A sn \in DOMAIN ecoflowList :
          LET first == ecoflowListConfig[FirstWith(sn)]
          IN /\ ecoflowList[sn].SerialNumber = sn
             /\ ecoflowList[sn].AppKey = first.AppKey
             /\ ecoflowList[sn].SecretKey = first.SecretKey
             /\ ecoflowList[sn].Description =
                   IF first.Description = <<>> THEN sn ELSE first.Description

\* C14 witness: main() serves a list of two records with one serial number
\* that differ in description and keys, and the working set holds the first.
C14_Witness ==
    /\ mainpc = "serve"
    /\ Len(ecoflowListConfig) = 2
    /\ ecoflowListConfig[1].SerialNumber = ecoflowListConfig[2].SerialNumber
    /\ ecoflowListConfig[1].Description # <<>>
    /\ ecoflowListConfig[2].Description # <<>>
    /\ ecoflowListConfig[1].Description # ecoflowListConfig[2].Description
    /\ ecoflowListConfig[1].AppKey # ecoflowListConfig[2].AppKey
    /\ DOMAIN ecoflowList = {ecoflowListConfig[1].SerialNumber}
    /\ ecoflowList[ecoflowListConfig[1].SerialNumber] = ecoflowListConfig[1]

\* defaults() on the record r: the description it gives, the fields it
\* keeps, and its result on its own result.
DefaultsLabel(r) ==
    /\ r.Description = <<>> => defaults(r).Description = r.SerialNumber
    /\ r.Description # <<>> => defaults(r).Description = r.Description
    /\ defaults(r).SerialNumber = r.SerialNumber
    /\ defaults(r).AppKey = r.AppKey
    /\ defaults(r).SecretKey = r.SecretKey
    /\ defaults(defaults(r)) = defaults(r)

\* C15: on every record main() has decoded, defaults() sets an empty
\* description to the serial number, leaves a non-empty one as it is, leaves
\* serial number and keys alone, and changes nothing when applied again;
\* and the records the loop has retained are such results.
C15_DefaultsLabel ==
    /\ \A i \in 1..Len(ecoflowListConfig) : DefaultsLabel(ecoflowListConfig[i])
    /\ \A sn \in DOMAIN ecoflowList :
          /\ DefaultsLabel(ecoflowList[sn])
          /\ ecoflowList[sn] = defaults(ecoflowListConfig[FirstWith(sn)])
          /\ ecoflowList[sn] = defaults(ecoflowList[sn])

\* C15 witness: the loop has retained a record that came without a
\* description, now described by its serial number, and a record that came
\* with a description other than its serial number, unchanged.
C15_Witness ==
    /\ mainpc = "serve"
    /\ \E i, j \in 1..Len(ecoflowListConfig) :
          LET r == ecoflowListConfig[i]
              q == ecoflowListConfig[j]
          IN /\ r.Description = <<>> /\ r.SerialNumber # <<>>
             /\ ecoflowList[r.SerialNumber].Description = r.SerialNumber
             /\ ecoflowList[r.SerialNumber].AppKey = "k"
             /\ q.Description # <<>> /\ q.Description # q.SerialNumber
             /\ q.SerialNumber # r.SerialNumber
             /\ ecoflowList[q.SerialNumber] = q

\* The records the configuration file lists.
FileRecords == IF "records" \in DOMAIN config THEN config.records ELSE <<>>
FileSerials == {FileRecords[i].SerialNumber : i \in 1..Len(FileRecords)}

\* C18: when main() serves, every registered exporter is that of a record
\* of the configuration file, and there are as many exporters as distinct
\* serial numbers in the file: none for a file without records.
C18_RegisteredAreConfigured ==
    mainpc = "serve" =>
        /\ \A e \in registered : e.labels.sn \in FileSerials
        /\ Cardinality(registered) = Cardinality(FileSerials)

\* The Collect() of task t has run and runs no more: it has returned, or
\* the process ended while it was between Lock() and Unlock().
Ended(t) == pc[t] = "returned" \/ (exited /\ Holding(t))

\* C16: a Collect() never issues a second request, none is issued before
\* Collect() has locked, and every Collect() that has ended has issued its
\* one request, whatever the cycles before it left in the gauges.
C16_OneRequestPerCollect ==
    \A t \in Tasks :
        /\ requests[t] <= 1
        /\ pc[t] \in {"idle", "lock"} => requests[t] = 0
        /\ Ended(t) => requests[t] = 1

\* C16 for the cycles that return: a returned Collect() has issued exactly
\* one request, also when the cycle before it on this exporter had failed.
C16_ReturnedCollectMadeOneRequest ==
    \A t \in Tasks :
        /\ requests[t] <= 1
        /\ pc[t] \in {"idle", "lock", "newrequest"} => requests[t] = 0
        /\ pc[t] \notin {"idle", "lock", "newrequest"} => requests[t] = 1

\* C17: every Collect() that has ended, on whatever path, has sent its five
\* metrics and has released its exporter's mutex.
C17_EmitsFiveAndUnlocks ==
    \A t \in Tasks :
        Ended(t) => /\ Sent(t) = Len(EmitOrder)
                    /\ mutex[dev[t]] # t

\* C17 for the cycles that return: on the success and on the failure
\* branch alike, the five gauges are sent once each, in the order of lines
\* 112-116, after the gauge writes and under the mutex, and a returned
\* Collect() has left the mutex free for the next one.
C17_ReturnedCollectEmittedFive ==
    \A t \in Tasks :
        /\ pc[t] \in {"emit", "unlock"} =>
              /\ mutex[dev[t]] = t
              /\ ch[t] = SubSeq(EmitOrder, 1, Len(ch[t]))
        /\ Holding(t) /\ ~Updated(t) => ch[t] = <<>>
        /\ pc[t] = "unlock" => ch[t] = EmitOrder
        /\ pc[t] = "returned" => ch[t] = EmitOrder /\ mutex[dev[t]] # t
====
